---- MODULE Spec2Model ----
(***************************************************************************)
(* A model of update_readme.py: the paginated fetch of a user's events,    *)
(* their aggregation over the trailing 30 days, the text chart and the     *)
(* two rendered sections, and the marker-based patch of README.md.         *)
(*                                                                         *)
(* Time is an integer number of ticks, DayLen ticks to a calendar day, so  *)
(* that both the instant (the 30-day window compares instants) and the     *)
(* calendar day (the per-day counts and the chart compare days) of a       *)
(* timestamp are modelled.  A document is the sequence of its pieces: each *)
(* marker is one piece (no marker is a substring of, or overlaps, another, *)
(* so the pieces of a text are unique), every other character is a piece,  *)
(* and a rendered section is a piece.  Glyphs outside ASCII are written    *)
(* with ASCII stand-ins: "#" for the bar's full block, "|" for the chart's *)
(* vertical line, "~~~" for the chart's code fence of three backquotes,    *)
(* and the emoji of the headings and of the bullets are left out, with the *)
(* blank that follows each.  A carriage return is the piece "\r".          *)
(***************************************************************************)
EXTENDS Integers, Sequences, FiniteSets, TLC

VARIABLES
    pc,                 \* where the script is
    GITHUB_TOKEN,       \* os.environ.get('GITHUB_TOKEN'): NoValue, "" or a value
    GITHUB_USERNAME,    \* os.environ.get('GITHUB_USERNAME')
    clock,              \* the last value datetime.utcnow() returned
    page,               \* fetch_user_events: page
    events,             \* fetch_user_events: events, then main: events
    stats,              \* main: stats
    user_stats,         \* main: user_stats
    chart,              \* generate_activity_section: chart
    activity_content,   \* main: activity_content
    stats_content,      \* main: stats_content
    readme,             \* the text of README.md on disk
    fs,                 \* what the file system lets the script do with README.md
    feed,               \* the user's events at the remote API, newest first
    exit_code,          \* the process's exit status, NoExit while it runs
    log,                \* what the script did, in order: requests, reads, writes, prints
    runs                \* how many times update_readme has been applied to readme

vars == <<pc, GITHUB_TOKEN, GITHUB_USERNAME, clock, page, events, stats, user_stats,
          chart, activity_content, stats_content, readme, fs, feed, exit_code, log, runs>>

---------------------------------------------------------------------------
(* Bounds of the model. *)

\* ticks in a calendar day
DayLen == 2
\* how far the clock may advance over one run
MaxTicks == 1
\* how many events the fresh part of a listing may fall short of full pages
MaxShort == 1
\* how many full pages a listing that stays below the page ceiling may hold
MaxFewPages == 2
\* the longest event sequence handed to analyze_events directly
MaxEvents == 3
\* the longest document handed to update_readme directly, in pieces
MaxDocLen == 4
\* how many times in a row update_readme is applied to one document
MaxRuns == 2

(* Constants of the program. *)

\* while page <= 10
MaxPages == 10
\* per_page=30
PerPage == 30
\* timedelta(days=30)
WindowDays == 30
\* range(29, -1, -1)
ChartSpan == 29
\* int((count / max_events) * 20)
BarWidth == 20
\* response.status_code != 200
StatusOk == 200

---------------------------------------------------------------------------
(* Helpers. *)

Min(a, b) == IF a <= b THEN a ELSE b

MaxOf(S) == CHOOSE m \in S : \A x \in S : x <= m

Range(f) == {f[x] : x \in DOMAIN f}

\* Body(x) for x the value of v: v is evaluated once, however often Body
\* uses it (an operator's argument is evaluated again at each use while
\* TLC evaluates ENABLED)
Bind(v, Body(_)) == CHOOSE r \in {Body(x) : x \in {v}} : TRUE

\* sep.join(lines)
RECURSIVE Join(_, _)
Join(lines, sep) ==
    Bind(lines, LAMBDA l :
        IF l = <<>> THEN ""
        ELSE IF Len(l) = 1 THEN l[1]
        ELSE l[1] \o sep \o Join(Tail(l), sep))

\* s * n
RECURSIVE Repeat(_, _)
Repeat(s, n) == IF n <= 0 THEN "" ELSE s \o Repeat(s, n - 1)

\* d.get(key, default)
Get(d, key, default) == IF key \in DOMAIN d THEN d[key] ELSE default

\* {}
EmptyDict == [k \in {} |-> 0]

\* all sequences over S of length at most n
SeqsUpTo(S, n) == UNION {[1..k -> S] : k \in 0..n}

---------------------------------------------------------------------------
(* Time. *)

\* the earliest instant a run starts at: midnight of some day
T0 == (WindowDays + 2) * DayLen

\* the instants a run may start at: any time of that day
ClockStarts == {T0 + k : k \in 0..(DayLen - 1)}

\* the clock stops advancing here
ClockMax == T0 + (DayLen - 1) + MaxTicks

\* what the next datetime.utcnow() may return
NextNows == clock..Min(clock + 1, ClockMax)

\* timedelta(days=n)
Days(n) == n * DayLen

\* strftime('%Y-%m-%d'): the calendar day of an instant
DayOf(t) == t \div DayLen

\* strftime('%m/%d') of a day
DateLabel(day) == "day" \o ToString(day)

\* strftime('%Y-%m-%d %H:%M UTC')
Timestamp(t) == DateLabel(DayOf(t)) \o " " \o ToString(t % DayLen) \o " UTC"

---------------------------------------------------------------------------
(* Events. *)

Event(type, repo, created_at, action, merged, commits, ref_type) ==
    [type |-> type, repo |-> repo, created_at |-> created_at, action |-> action,
     merged |-> merged, commits |-> commits, ref_type |-> ref_type]

\* the event types and their payloads, in one record shape: commits is
\* len(payload.get('commits', [])), and a field a type's payload does not
\* carry is "", FALSE or 0
Push(repo, t, commits) == Event("PushEvent", repo, t, "", FALSE, commits, "")
PullRequest(repo, t, action, merged) == Event("PullRequestEvent", repo, t, action, merged, 0, "")
Issues(repo, t, action) == Event("IssuesEvent", repo, t, action, FALSE, 0, "")
IssueComment(repo, t) == Event("IssueCommentEvent", repo, t, "created", FALSE, 0, "")
ReviewComment(repo, t) == Event("PullRequestReviewCommentEvent", repo, t, "created", FALSE, 0, "")
Watch(repo, t) == Event("WatchEvent", repo, t, "started", FALSE, 0, "")
Create(repo, t, ref_type) == Event("CreateEvent", repo, t, "", FALSE, 0, ref_type)
Fork(repo, t) == Event("ForkEvent", repo, t, "", FALSE, 0, "")

\* the instants of the events: now, a day ago, just inside the window on
\* the calendar day the chart no longer shows, the edge of the window of a
\* run started at T0, just outside it, and 31 days ago
Recent == T0
Yesterday == T0 - Days(1)
Inside == T0 - Days(WindowDays) + 1
Edge == T0 - Days(WindowDays)
Outside == T0 - Days(WindowDays) - 1
Old == T0 - Days(WindowDays + 1)

\* the events analyze_events is tried on: every type and payload, both
\* repositories, every instant
EventPool ==
    { Push("alice/one", Recent, 2),
      Push("alice/two", Inside, 1),
      Push("alice/one", Outside, 2),
      PullRequest("alice/two", Recent, "opened", FALSE),
      PullRequest("alice/one", Yesterday, "closed", TRUE),
      Issues("alice/two", Edge, "opened"),
      IssueComment("alice/one", Inside),
      Watch("alice/two", Old),
      Create("alice/two", Yesterday, "repository"),
      Fork("alice/one", Recent) }

---------------------------------------------------------------------------
(* analyze_events *)

EmptyStats ==
    [commits |-> 0, prs_opened |-> 0, prs_merged |-> 0, issues_opened |-> 0,
     issues_commented |-> 0, repos_contributed |-> {}, review_comments |-> 0,
     stars_given |-> 0, repos_created |-> 0, events_by_day |-> EmptyDict]

\* the comparison with "<=" for "<"
OutsideWindowOrOnTheEdge(event, thirty_days_ago) == event.created_at <= thirty_days_ago

\* if event_date < thirty_days_ago: continue
OutsideWindow(event, thirty_days_ago) == event.created_at < thirty_days_ago

\* stats['events_by_day'][day_key] += 1 on a defaultdict(int)
Bump(by_day, day_key) ==
    Bind(by_day, LAMBDA m :
        [d \in DOMAIN m \cup {day_key} |-> IF d = day_key THEN Get(m, d, 0) + 1 ELSE m[d]])

\* the body of the loop, for one event inside the window
Counted(s, event) ==
    [s EXCEPT !.events_by_day = Bump(s.events_by_day, DayOf(event.created_at)),
              !.repos_contributed = s.repos_contributed \cup {event.repo}]

Count(s, event) ==
    Bind(Counted(s, event), LAMBDA t :
        IF event.type = "PushEvent"
            THEN [t EXCEPT !.commits = @ + event.commits]
        ELSE IF event.type = "PullRequestEvent"
            THEN IF event.action = "opened"
                     THEN [t EXCEPT !.prs_opened = @ + 1]
                 ELSE IF event.action = "closed" /\ event.merged
                     THEN [t EXCEPT !.prs_merged = @ + 1]
                 ELSE t
        ELSE IF event.type = "IssuesEvent" /\ event.action = "opened"
            THEN [t EXCEPT !.issues_opened = @ + 1]
        ELSE IF event.type = "IssueCommentEvent"
            THEN [t EXCEPT !.issues_commented = @ + 1]
        ELSE IF event.type = "PullRequestReviewCommentEvent"
            THEN [t EXCEPT !.review_comments = @ + 1]
        ELSE IF event.type = "WatchEvent"
            THEN [t EXCEPT !.stars_given = @ + 1]
        ELSE IF event.type = "CreateEvent" /\ event.ref_type = "repository"
            THEN [t EXCEPT !.repos_created = @ + 1]
        ELSE t)

\* for event in events: ..., over the events evs[lo], ..., evs[hi] in their
\* order: those of the first half, then those of the second
RECURSIVE ScanRange(_, _, _, _, _)
ScanRange(s, evs, lo, hi, thirty_days_ago) ==
    IF lo > hi THEN s
    ELSE IF lo = hi
        THEN IF OutsideWindow(evs[lo], thirty_days_ago) THEN s ELSE Count(s, evs[lo])
    ELSE Bind((lo + hi) \div 2, LAMBDA mid :
         Bind(ScanRange(s, evs, lo, mid, thirty_days_ago), LAMBDA t :
             ScanRange(t, evs, mid + 1, hi, thirty_days_ago)))

\* for event in events: ...
Scan(s, evs, thirty_days_ago) == ScanRange(s, evs, 1, Len(evs), thirty_days_ago)

analyze_events(evs, now) ==
    Bind(Scan(EmptyStats, evs, now - Days(WindowDays)), LAMBDA s :
        [s EXCEPT !.repos_contributed = Cardinality(s.repos_contributed)])

---------------------------------------------------------------------------
(* create_activity_chart *)

\* days = [(today - timedelta(days=i)) ... for i in range(29, -1, -1)]
ChartDays(now) == [i \in 1..(ChartSpan + 1) |-> DayOf(now) - (ChartSpan + 1 - i)]

\* max(events_by_day.values()) if events_by_day else 1
MaxEventsOf(events_by_day) ==
    IF DOMAIN events_by_day = {} THEN 1 ELSE MaxOf(Range(events_by_day))

\* int((count / max_events) * 20) if max_events > 0 else 0
BarLength(count, max_events) ==
    IF max_events > 0 THEN (count * BarWidth) \div max_events ELSE 0

\* f"{date_label} |{bar} {count}"
ChartLine(day, bar_length, count) ==
    DateLabel(day) \o " |" \o Repeat("#", bar_length) \o " " \o ToString(count)

ChartLines(events_by_day, now) ==
    Bind(ChartDays(now), LAMBDA days :
    Bind(MaxEventsOf(events_by_day), LAMBDA max_events :
        <<"~~~", "Activity over the last 30 days:", "">>
        \o [i \in 1..Len(days) |->
               Bind(Get(events_by_day, days[i], 0), LAMBDA count :
                   ChartLine(days[i], BarLength(count, max_events), count))]
        \o <<"~~~">>))

NoActivity == "No activity in the last 30 days"

create_activity_chart(events_by_day, now) ==
    IF DOMAIN events_by_day = {} THEN NoActivity
    ELSE Join(ChartLines(events_by_day, now), "\n")

---------------------------------------------------------------------------
(* generate_activity_section, generate_stats_section *)

generate_activity_section(s, now) ==
    Join(<< "### Activity Summary",
            "",
            "- **" \o ToString(s.commits) \o "** commits pushed",
            "- **" \o ToString(s.prs_opened) \o "** pull requests opened",
            "- **" \o ToString(s.issues_opened) \o "** issues opened",
            "- **" \o ToString(s.issues_commented) \o "** issue comments",
            "- **" \o ToString(s.review_comments) \o "** review comments",
            "- **" \o ToString(s.repos_contributed) \o "** repositories contributed to",
            "",
            create_activity_chart(s.events_by_day, now) >>, "\n")

\* a badge line: the alternative text, and the label, value and colour of the URL
Badge(alt, label, value, colour) ==
    "![" \o alt \o "](https://img.shields.io/badge/" \o label \o "-"
        \o ToString(value) \o "-" \o colour \o "?style=flat-square)"

generate_stats_section(profile, recent_stats) ==
    Join(<< Badge("Followers", "Followers", Get(profile, "followers", 0), "blue"),
            Badge("Public Repos", "Public_Repos", Get(profile, "public_repos", 0), "green"),
            Badge("Total Stars", "Total_Stars", Get(profile, "public_gists", 0), "yellow"),
            "",
            "### This Month's Highlights",
            "",
            "- **" \o ToString(recent_stats.commits) \o "** commits",
            "- **" \o ToString(recent_stats.prs_opened) \o "** PRs opened",
            "- **" \o ToString(recent_stats.stars_given) \o "** repositories starred",
            "- **" \o ToString(recent_stats.repos_created) \o "** new repositories created"
         >>, "\n")

---------------------------------------------------------------------------
(* update_readme *)

activity_start == "<!-- ACTIVITY_START -->"
activity_end == "<!-- ACTIVITY_END -->"
stats_start == "<!-- STATS_START -->"
stats_end == "<!-- STATS_END -->"
date_start == "<!-- DATE_START -->"
date_end == "<!-- DATE_END -->"

Markers == {activity_start, activity_end, stats_start, stats_end, date_start, date_end}

\* the least index from `from` on where the piece stands, 0 when nowhere
Find(text, piece, from) ==
    LET hits == {k \in from..Len(text) : text[k] = piece}
    IN  IF hits = {} THEN 0 ELSE CHOOSE k \in hits : \A h \in hits : k <= h

\* the substitution replacing what stands between the markers, and keeping them
RECURSIVE re_sub_between(_, _, _, _)
re_sub_between(start, end, section, text) ==
    Bind(text, LAMBDA t :
    Bind(Find(t, start, 1), LAMBDA i :
    Bind(IF i = 0 THEN 0 ELSE Find(t, end, i + 1), LAMBDA j :
        IF j = 0 THEN t
        ELSE SubSeq(t, 1, i) \o section \o <<t[j]>>
                 \o re_sub_between(start, end, section, SubSeq(t, j + 1, Len(t))))))

\* the substitution adding the section at the end when nothing matches
re_sub_or_append(start, end, section, text) ==
    Bind(text, LAMBDA t :
    Bind(Find(t, start, 1), LAMBDA i :
    Bind(IF i = 0 THEN 0 ELSE Find(t, end, i + 1), LAMBDA j :
        IF j = 0 THEN t \o section
        ELSE SubSeq(t, 1, i - 1) \o section \o SubSeq(t, j + 1, Len(t)))))

\* re.sub(f'{start}.*?{end}', section, text, flags=re.DOTALL): every match,
\* left to right, of a start marker up to the nearest end marker after it
RECURSIVE re_sub(_, _, _, _)
re_sub(start, end, section, text) ==
    Bind(text, LAMBDA t :
    Bind(Find(t, start, 1), LAMBDA i :
    Bind(IF i = 0 THEN 0 ELSE Find(t, end, i + 1), LAMBDA j :
        IF j = 0 THEN t
        ELSE SubSeq(t, 1, i - 1) \o section
                 \o re_sub(start, end, section, SubSeq(t, j + 1, Len(t))))))

\* the section without the newline before the end marker
activity_section_one_newline(content) == <<activity_start, "\n", content, activity_end>>

\* f"{activity_start}\n{activity_content}\n{activity_end}"
activity_section(content) == <<activity_start, "\n", content, "\n", activity_end>>

\* f"{stats_start}\n{stats_content}\n{stats_end}"
stats_section(content) == <<stats_start, "\n", content, "\n", stats_end>>

\* f"{date_start}{datetime.utcnow().strftime('%Y-%m-%d %H:%M UTC')}{date_end}"
date_section(now) == <<date_start, Timestamp(now), date_end>>

\* f.read() of a file opened in text mode, newline=None: a carriage return
\* with a line feed after it, and a carriage return alone, are read as one
\* line feed
RECURSIVE read_text(_)
read_text(file) ==
    Bind(file, LAMBDA f :
        IF f = <<>> THEN <<>>
        ELSE IF Head(f) = "\r"
            THEN IF Len(f) >= 2 /\ f[2] = "\n"
                     THEN <<"\n">> \o read_text(SubSeq(f, 3, Len(f)))
                     ELSE <<"\n">> \o read_text(Tail(f))
        ELSE <<Head(f)>> \o read_text(Tail(f)))

\* os.linesep where the script runs (POSIX)
linesep == <<"\n">>

\* f.write() to a file opened in text mode, newline=None: each line feed is
\* written as os.linesep
RECURSIVE write_text(_)
write_text(text) ==
    Bind(text, LAMBDA t :
        IF t = <<>> THEN <<>>
        ELSE (IF Head(t) = "\n" THEN linesep ELSE <<Head(t)>>) \o write_text(Tail(t)))

\* the three substitutions, one after the other
update_readme(text, activity, statistics, now) ==
    LET r1 == re_sub(activity_start, activity_end, activity_section(activity), text)
        r2 == re_sub(stats_start, stats_end, stats_section(statistics), r1)
    IN  re_sub(date_start, date_end, date_section(now), r2)

---------------------------------------------------------------------------
(* The environment: the process's configuration, the remote API, README.md *)

\* os.environ.get of a variable that is not set: None
NoValue == "<None>"

\* the process has not exited
NoExit == 0 - 1

TokenValues == {NoValue, "", "ghp_token"}
UsernameValues == {NoValue, "", "alice"}

\* the statuses the remote API answers with
Statuses == {StatusOk, 403}

\* the remote API's listing: fresh events, filling whole pages or falling
\* short of them by a few events, then perhaps one on the edge of the
\* window and events older than it, the last of them perhaps followed by a
\* fresh one (the code reads the last event of a page, whatever the order)
FreshEvent(i) ==
    IF i % 2 = 1 THEN Push("alice/one", Recent, 2) ELSE Watch("alice/two", Recent)

FeedTails ==
    { <<>>,
      <<Issues("alice/one", Edge, "opened")>>,
      <<Push("alice/one", Recent, 1), Watch("alice/two", Old)>>,
      <<Watch("alice/two", Old), Fork("alice/one", Recent)>> }

\* the lengths of the fresh part: a few pages, or as many as the page ceiling
FreshLengths ==
    {n \in {p * PerPage - short : p \in (0..MaxFewPages) \cup {MaxPages},
                                  short \in 0..MaxShort} : n >= 0}

Feeds ==
    { [i \in 1..n |-> FreshEvent(i)] \o tail : n \in FreshLengths, tail \in FeedTails }

\* GET /users/{GITHUB_USERNAME}/events?page={p}: the p-th page of the listing
ServePage(listing, p) ==
    SubSeq(listing, (p - 1) * PerPage + 1, Min(p * PerPage, Len(listing)))

\* GET /users/{GITHUB_USERNAME}: the profile
Profile == [followers |-> 7, public_repos |-> 12, public_gists |-> 3]

\* fs: open('README.md') works ("ok"), fails for reading ("unreadable") or
\* fails for writing ("unwritable")

\* a README.md with the three regions, each once
TemplateDoc ==
    << "x", "\n", activity_start, "x", "\n", activity_end, "\n", stats_start, stats_end,
       "\n", "x", date_start, "x", date_end, "\n" >>

\* one without the stats markers, its first line ended by CR LF
TemplateNoStats ==
    << "x", "\r", "\n", activity_start, activity_end, "\n", date_start, "x", date_end >>

\* one whose stats end marker stands twice, the first inside the activity region
TemplateTwice ==
    << stats_start, activity_start, stats_end, activity_end, "x", stats_end >>

Templates == {TemplateDoc, TemplateNoStats, TemplateTwice}

\* README.md and what the file system allows, at the start of a run
Files ==
    {<<TemplateDoc, "ok">>, <<TemplateDoc, "unreadable">>, <<TemplateDoc, "unwritable">>}

\* the pieces of the documents tried exhaustively
Pieces == Markers \cup {"x", "\n", "\r"}

Docs == SeqsUpTo(Pieces, MaxDocLen) \cup Templates

---------------------------------------------------------------------------
(* The script. *)

Entry(op, arg) == [op |-> op, arg |-> arg]

\* print(line)
Stdout(line) == Entry("print", line)

\* if not GITHUB_TOKEN or not GITHUB_USERNAME
Falsy(v) == v = NoValue \/ v = ""
\* the check with "and" for "or"
ConfigMissingBoth(token, username) == Falsy(token) /\ Falsy(username)

ConfigMissing(token, username) == Falsy(token) \/ Falsy(username)

\* while page <= 10
LoopContinues(p) == p <= MaxPages

\* the test made on the first event of the page, page_events[0]
TooOldAtTheTop(page_events, now) ==
    page_events[1].created_at < now - Days(WindowDays)

\* oldest_event < datetime.utcnow() - timedelta(days=30), of page_events[-1]
TooOld(page_events, now) ==
    page_events[Len(page_events)].created_at < now - Days(WindowDays)

\* the events collected so far thrown away on a failed request
CollectedOrNone(evs, status, page_events) ==
    IF status = StatusOk THEN evs \o page_events ELSE <<>>

\* events after a response: events.extend(page_events) on a 200, untouched
\* when the loop breaks on another status
Collected(evs, status, page_events) ==
    IF status = StatusOk THEN evs \o page_events ELSE evs

\* main with the profile fetched before the aggregation
main_next_profile_first(step) ==
    CASE step = "fetch" -> "profile"
      [] step = "profile" -> "analyze"
      [] step = "analyze" -> "generate"
      [] step = "generate" -> "update"
      [] step = "update" -> "done"

\* main: the step after each step
main_next(step) ==
    CASE step = "fetch" -> "analyze"
      [] step = "analyze" -> "profile"
      [] step = "profile" -> "generate"
      [] step = "generate" -> "update"
      [] step = "update" -> "done"

\* the module-level check of the configuration, and main's entry into
\* fetch_user_events
Configure ==
    /\ pc = "start"
    /\ IF ConfigMissing(GITHUB_TOKEN, GITHUB_USERNAME)
       THEN /\ log' = Append(log, Stdout("Error: GITHUB_TOKEN and GITHUB_USERNAME must be set"))
            /\ exit_code' = 1
            /\ pc' = "exited"
            /\ UNCHANGED <<page, events>>
       ELSE /\ log' = Append(log, Stdout("Fetching GitHub activity..."))
            /\ pc' = "fetch"
            /\ page' = 1
            /\ events' = <<>>
            /\ UNCHANGED exit_code
    /\ UNCHANGED <<GITHUB_TOKEN, GITHUB_USERNAME, clock, stats, user_stats, chart,
                   activity_content, stats_content, readme, fs, feed, runs>>

\* fetch_user_events: one turn of the loop, and the return once it is left
FetchPage ==
    /\ pc = "fetch"
    /\ \E status \in Statuses, now \in NextNows :
          LET page_events == IF status = StatusOk THEN ServePage(feed, page) ELSE <<>>
              request == Entry("GET_events",
                               [page |-> page, status |-> status, body |-> page_events])
              fetched == Collected(events, status, page_events)
              reads_clock == status = StatusOk /\ page_events # <<>>
              break == \/ status # StatusOk
                       \/ page_events = <<>>
                       \/ TooOld(page_events, now)
              next_page == IF break THEN page ELSE page + 1
              returns == break \/ ~LoopContinues(next_page)
          IN  /\ reads_clock \/ now = clock
              /\ clock' = now
              /\ events' = fetched
              /\ page' = next_page
              /\ pc' = IF returns THEN main_next("fetch") ELSE "fetch"
              /\ log' = log \o <<request>>
                     \o (IF status # StatusOk
                         THEN <<Stdout("Error fetching events: " \o ToString(status))>>
                         ELSE <<>>)
                     \o (IF returns
                         THEN <<Stdout("Found " \o ToString(Len(fetched)) \o " events")>>
                         ELSE <<>>)
    /\ UNCHANGED <<GITHUB_TOKEN, GITHUB_USERNAME, stats, user_stats, chart,
                   activity_content, stats_content, readme, fs, feed, exit_code, runs>>

\* main: stats = analyze_events(events)
Analyze ==
    /\ pc = "analyze"
    /\ \E now \in NextNows :
          /\ clock' = now
          /\ stats' = analyze_events(events, now)
          /\ log' = log \o <<Stdout("Analyzing events..."), Entry("analyze_events", Len(events))>>
    /\ pc' = main_next("analyze")
    /\ UNCHANGED <<GITHUB_TOKEN, GITHUB_USERNAME, page, events, user_stats, chart,
                   activity_content, stats_content, readme, fs, feed, exit_code, runs>>

\* main: user_stats = fetch_user_stats()
FetchUserStats ==
    /\ pc = "profile"
    /\ \E status \in Statuses :
          /\ user_stats' = IF status = StatusOk THEN Profile ELSE EmptyDict
          /\ log' = log \o <<Stdout("Fetching user stats..."), Entry("GET_user", status)>>
    /\ pc' = main_next("profile")
    /\ UNCHANGED <<GITHUB_TOKEN, GITHUB_USERNAME, clock, page, events, stats, chart,
                   activity_content, stats_content, readme, fs, feed, exit_code, runs>>

\* main: generate_activity_section(stats), generate_stats_section(user_stats, stats)
Generate ==
    /\ pc = "generate"
    /\ \E now \in NextNows :
          /\ stats.events_by_day # EmptyDict \/ now = clock
          /\ clock' = now
          /\ chart' = create_activity_chart(stats.events_by_day, now)
          /\ activity_content' = generate_activity_section(stats, now)
          /\ log' = log \o <<Stdout("Generating content..."), Entry("create_activity_chart", "")>>
    /\ stats_content' = generate_stats_section(user_stats, stats)
    /\ pc' = main_next("generate")
    /\ UNCHANGED <<GITHUB_TOKEN, GITHUB_USERNAME, page, events, stats, user_stats,
                   readme, fs, feed, exit_code, runs>>

\* main: update_readme(activity_content, stats_content), and the script's end
UpdateReadme ==
    /\ pc = "update"
    /\ \E now \in NextNows :
          IF fs = "unreadable"
          THEN /\ now = clock
               /\ log' = log \o <<Stdout("Updating README..."), Entry("read_error", "README.md")>>
               /\ pc' = "crashed"
               /\ exit_code' = 1
               /\ UNCHANGED <<clock, readme, runs>>
          ELSE LET text == read_text(readme)
                   written == write_text(update_readme(text, activity_content,
                                                       stats_content, now))
                   read == Entry("read", [file |-> readme, text |-> text])
               IN  /\ clock' = now
                   /\ IF fs = "unwritable"
                      THEN /\ log' = log \o <<Stdout("Updating README..."), read,
                                              Entry("re_sub", ""), Entry("write_error", "README.md")>>
                           /\ pc' = "crashed"
                           /\ exit_code' = 1
                           /\ UNCHANGED <<readme, runs>>
                      ELSE /\ log' = log \o <<Stdout("Updating README..."), read,
                                              Entry("re_sub", ""), Entry("write", written),
                                              Stdout("README.md updated successfully!"),
                                              Stdout("Done!")>>
                           /\ readme' = written
                           /\ runs' = runs + 1
                           /\ pc' = main_next("update")
                           /\ exit_code' = 0
    /\ UNCHANGED <<GITHUB_TOKEN, GITHUB_USERNAME, page, events, stats, user_stats, chart,
                   activity_content, stats_content, fs, feed>>

\* update_readme called once more with the same arguments on the document it wrote
Again ==
    /\ pc = "done"
    /\ runs < MaxRuns
    /\ pc' = "update"
    /\ exit_code' = NoExit
    /\ UNCHANGED <<GITHUB_TOKEN, GITHUB_USERNAME, clock, page, events, stats, user_stats, chart,
                   activity_content, stats_content, readme, fs, feed, log, runs>>

---------------------------------------------------------------------------
(* The run of the script, from its start. *)

Init ==
    /\ pc = "start"
    /\ GITHUB_TOKEN \in TokenValues
    /\ GITHUB_USERNAME \in UsernameValues
    /\ clock \in ClockStarts
    /\ page = 0
    /\ events = <<>>
    /\ stats = "unset"
    /\ user_stats = "unset"
    /\ chart = ""
    /\ activity_content = ""
    /\ stats_content = ""
    /\ \E file \in Files : readme = file[1] /\ fs = file[2]
    /\ feed \in Feeds
    /\ exit_code = NoExit
    /\ log = <<>>
    /\ runs = 0

Next == Configure \/ FetchPage \/ Analyze \/ FetchUserStats \/ Generate \/ UpdateReadme

Spec == Init /\ [][Next]_vars

(* analyze_events and the two generators, called on any sequence of events. *)

InitAgg ==
    /\ pc = "analyze"
    /\ GITHUB_TOKEN = "ghp_token"
    /\ GITHUB_USERNAME = "alice"
    /\ clock \in ClockStarts
    /\ page = 1
    /\ events \in SeqsUpTo(EventPool, MaxEvents)
    /\ stats = "unset"
    /\ user_stats = "unset"
    /\ chart = ""
    /\ activity_content = ""
    /\ stats_content = ""
    /\ readme = TemplateDoc
    /\ fs = "ok"
    /\ feed = <<>>
    /\ exit_code = NoExit
    /\ log = <<>>
    /\ runs = 0

NextAgg == Analyze \/ FetchUserStats \/ Generate

SpecAgg == InitAgg /\ [][NextAgg]_vars

(* update_readme, called on any document. *)

InitPatch ==
    /\ pc = "update"
    /\ GITHUB_TOKEN = "ghp_token"
    /\ GITHUB_USERNAME = "alice"
    /\ clock = ClockMax
    /\ page = 1
    /\ events = <<>>
    /\ stats = analyze_events(<<>>, ClockMax)
    /\ user_stats = Profile
    /\ chart = create_activity_chart(stats.events_by_day, ClockMax)
    /\ activity_content = generate_activity_section(stats, ClockMax)
    /\ stats_content = generate_stats_section(user_stats, stats)
    /\ readme \in Docs
    /\ fs = "ok"
    /\ feed = <<>>
    /\ exit_code = NoExit
    /\ log = <<>>
    /\ runs = 0

NextPatch == UpdateReadme \/ Again

SpecPatch == InitPatch /\ [][NextPatch]_vars

---------------------------------------------------------------------------
(* What the log says. *)

\* the entries of one kind, in order
Ops(op) == SelectSeq(log, LAMBDA e : e.op = op)

\* the page requests made so far
Requests == Ops("GET_events")

\* where the first entry of a kind stands in the log, 0 when there is none
IndexOf(op) ==
    LET hits == {k \in 1..Len(log) : log[k].op = op}
    IN  IF hits = {} THEN 0 ELSE CHOOSE k \in hits : \A h \in hits : k <= h

\* the steps of the run in order: its prints left out, the page requests
\* taken as one step, a failed read or write taken as the read or write
StepName(op) ==
    IF op = "read_error" THEN "read" ELSE IF op = "write_error" THEN "write" ELSE op

Steps ==
    LET work == SelectSeq(log, LAMBDA e : e.op # "print")
    IN  SelectSeq([k \in 1..Len(work) |->
                      IF k > 1 /\ work[k].op = "GET_events" /\ work[k - 1].op = "GET_events"
                      THEN "" ELSE StepName(work[k].op)],
                  LAMBDA o : o # "")

IsPrefix(s, t) == Len(s) <= Len(t) /\ \A k \in 1..Len(s) : s[k] = t[k]

\* the bodies of the first n page requests, one after the other
RECURSIVE Bodies(_, _)
Bodies(reqs, n) == IF n = 0 THEN <<>> ELSE Bodies(reqs, n - 1) \o reqs[n].arg.body

\* a page after which the claim has fetching go on: served, not empty, its
\* oldest event not older than 30 days at the instant now, not the tenth
GoesOn(r, now) ==
    /\ r.status = StatusOk
    /\ r.body # <<>>
    /\ r.body[Len(r.body)].created_at >= now - Days(WindowDays)
    /\ r.page < MaxPages

Fetching == pc = "fetch"
Returned == pc \in {"analyze", "profile", "generate", "update", "done", "crashed"}

---------------------------------------------------------------------------
(* C1: fetch_user_events requests pages 1, 2, 3, ... one at a time, never  *)
(* more than 10; after a page it goes on to the next one exactly when the  *)
(* page was served, was not empty, its oldest event was inside the 30-day  *)
(* window at that instant and it was not page 10, so fetching stops right  *)
(* after the first page that is empty, too old or the tenth; and the       *)
(* events of a served page, the one it stops on for being too old (31      *)
(* days, say) included, are appended to what it returns.                   *)
C1_Pages ==
    LET reqs == Requests
        n == Len(reqs)
    IN  /\ n <= MaxPages
        /\ \A k \in 1..n : reqs[k].arg.page = k
        /\ Fetching => page = n + 1
        /\ Returned => n >= 1

C1_Turn ==
    Fetching =>
        LET reqs == Requests'
            n == Len(reqs)
            r == reqs[n].arg
        IN  /\ n = Len(Requests) + 1
            /\ r.page = page
            /\ Fetching' <=> GoesOn(r, clock')
            /\ Fetching' => page' = page + 1
            /\ ~Fetching' => Returned'
            /\ r.status = StatusOk => events' = events \o r.body

C1_FetchStops == []C1_Pages /\ [][C1_Turn]_vars

\* fetching stopped on its third page or a later one, a page of several
\* events whose last was exactly 31 days old and whose first was fresh, and
\* that page's events were returned
C1_Witness ==
    LET reqs == Requests
        n == Len(reqs)
    IN  /\ pc = "analyze"
        /\ n >= 3
        /\ Len(reqs[n].arg.body) >= 2
        /\ reqs[n].arg.body[1].created_at >= clock - Days(WindowDays)
        /\ reqs[n].arg.status = StatusOk
        /\ reqs[n].arg.body # <<>>
        /\ reqs[n].arg.body[Len(reqs[n].arg.body)].created_at = clock - Days(WindowDays + 1)
        /\ events[Len(events)] = reqs[n].arg.body[Len(reqs[n].arg.body)]

---------------------------------------------------------------------------
(* C2: once a page request is answered with a status other than 200, no    *)
(* further page is requested (the failed page is not asked for again),     *)
(* nothing is raised, fetch_user_events returns the events of the pages    *)
(* served before it, in page order, and the run goes on with them through  *)
(* the aggregation, the rendering and the write to its normal end.         *)
C2_PartialFetch ==
    LET reqs == Requests
        n == Len(reqs)
        failed == {k \in 1..n : reqs[k].arg.status # StatusOk}
    IN  failed # {} =>
            /\ failed = {n}
            /\ Returned
            /\ events = Bodies(reqs, n - 1)
            /\ pc \in {"profile", "generate"} => stats = analyze_events(events, clock)
            /\ pc = "crashed" => fs # "ok"
            /\ fs = "ok" =>
                   \/ /\ pc = "done"
                      /\ exit_code = 0
                      /\ Ops("write") # <<>>
                      /\ Ops("write")[1].arg = readme
                   \/ /\ pc # "done"
                      /\ exit_code = NoExit
                      /\ ENABLED Next

\* a run that ended normally after its third page request failed, with the
\* events of the two pages before it
C2_Witness ==
    /\ pc = "done"
    /\ exit_code = 0
    /\ Len(Requests) = 3
    /\ Requests[3].arg.status # StatusOk
    /\ events = Requests[1].arg.body \o Requests[2].arg.body
    /\ Len(events) >= 2
    /\ stats.repos_contributed = 2

---------------------------------------------------------------------------
(* C9, as claimed: the steps of a run come in the order fetch events,      *)
(* fetch profile, aggregate, render, patch, write, so the aggregation      *)
(* never starts before the profile has been fetched.                       *)
ClaimedOrder ==
    <<"GET_events", "GET_user", "analyze_events", "create_activity_chart",
      "read", "re_sub", "write">>

C9_ProfileBeforeAggregation == IsPrefix(Steps, ClaimedOrder)

(* C9, amended: the steps of a run come one after the other in the order   *)
(* fetch events (pages in ascending order), aggregate, fetch profile,      *)
(* render, patch, write; each step starts after the one before it has      *)
(* finished, and the write is the last step.                               *)
ActualOrder ==
    <<"GET_events", "analyze_events", "GET_user", "create_activity_chart",
      "read", "re_sub", "write">>

C9_Sequential ==
    /\ IsPrefix(Steps, ActualOrder)
    /\ \A k \in 1..Len(Requests) : Requests[k].arg.page = k
    /\ pc = "done" => Steps = ActualOrder

\* a run that made every step, several page requests among them
C9_Witness ==
    /\ pc = "done"
    /\ Len(Requests) >= 2
    /\ IndexOf("analyze_events") < IndexOf("GET_user")
    /\ IndexOf("write") > IndexOf("read")

---------------------------------------------------------------------------
(* C10: with the access credential or the account identifier absent or     *)
(* empty the process prints the fixed message and exits with status 1, and *)
(* has made no request and has neither read nor written the document; with *)
(* both present, and no file error, the run goes on to its normal end with *)
(* status 0.                                                               *)
C10_Config ==
    IF GITHUB_TOKEN \in {NoValue, ""} \/ GITHUB_USERNAME \in {NoValue, ""}
    THEN /\ pc \in {"start", "exited"}
         /\ pc = "start" => log = <<>> /\ exit_code = NoExit
         /\ pc = "exited" =>
                /\ exit_code = 1
                /\ log = <<Stdout("Error: GITHUB_TOKEN and GITHUB_USERNAME must be set")>>
    ELSE /\ pc # "exited"
         /\ exit_code = 0 => pc = "done"
         /\ pc = "crashed" => fs # "ok" /\ exit_code = 1
         /\ fs = "ok" =>
                \/ pc = "done" /\ exit_code = 0
                \/ pc \notin {"done", "crashed"} /\ exit_code = NoExit /\ ENABLED Next

\* the process has exited for an account identifier that is not set, the
\* access credential being there
C10_Witness ==
    /\ pc = "exited"
    /\ exit_code = 1
    /\ GITHUB_TOKEN = "ghp_token"
    /\ GITHUB_USERNAME = NoValue

---------------------------------------------------------------------------
(* The events inside the window, as the claims have them. *)

\* the events not older than 30 days at the instant now
InWindow(evs, now) == SelectSeq(evs, LAMBDA e : e.created_at >= now - 30 * DayLen)

\* how many events of a sequence satisfy a condition
HowMany(evs, Cond(_)) == Cardinality({k \in DOMAIN evs : Cond(evs[k])})

RECURSIVE SumOfCommits(_)
SumOfCommits(evs) ==
    IF evs = <<>> THEN 0
    ELSE (IF Head(evs).type = "PushEvent" THEN Head(evs).commits ELSE 0)
             + SumOfCommits(Tail(evs))

\* analyze_events has returned, and the clock is the one it read
Analyzed == pc \in {"profile", "generate"}

---------------------------------------------------------------------------
(* C8: the distinct-repository count analyze_events returns is the number  *)
(* of distinct repository names among the events not older than 30 days,   *)
(* whatever their type; every such event is counted on its calendar day;   *)
(* and the events older than that contribute to no counter, no per-day     *)
(* count and no repository: the result is the one of the events inside the *)
(* window alone.                                                           *)
C8_ReposInWindow ==
    Analyzed =>
        LET inside == InWindow(events, clock)
            by_day == stats.events_by_day
        IN  /\ stats.repos_contributed = Cardinality({inside[k].repo : k \in DOMAIN inside})
            /\ DOMAIN by_day = {DayOf(inside[k].created_at) : k \in DOMAIN inside}
            /\ \A d \in DOMAIN by_day :
                   by_day[d] = HowMany(inside, LAMBDA e : DayOf(e.created_at) = d)
            /\ stats.commits = SumOfCommits(inside)
            /\ stats.prs_opened
                   = HowMany(inside, LAMBDA e : e.type = "PullRequestEvent" /\ e.action = "opened")
            /\ stats.prs_merged
                   = HowMany(inside, LAMBDA e : /\ e.type = "PullRequestEvent"
                                                /\ e.action = "closed" /\ e.merged)
            /\ stats.issues_opened
                   = HowMany(inside, LAMBDA e : e.type = "IssuesEvent" /\ e.action = "opened")
            /\ stats.issues_commented = HowMany(inside, LAMBDA e : e.type = "IssueCommentEvent")
            /\ stats.review_comments
                   = HowMany(inside, LAMBDA e : e.type = "PullRequestReviewCommentEvent")
            /\ stats.stars_given = HowMany(inside, LAMBDA e : e.type = "WatchEvent")
            /\ stats.repos_created
                   = HowMany(inside, LAMBDA e : e.type = "CreateEvent" /\ e.ref_type = "repository")
            /\ stats = analyze_events(inside, clock)

\* three events were analysed: two inside the window, of different types
\* and of one repository, and one outside it, of the other repository
C8_Witness ==
    /\ Analyzed
    /\ Len(events) = 3
    /\ Len(InWindow(events, clock)) = 2
    /\ Cardinality({events[k].repo : k \in DOMAIN events}) = 2
    /\ Cardinality({events[k].type : k \in DOMAIN events}) = 3
    /\ stats.repos_contributed = 1

---------------------------------------------------------------------------
(* C7: for a per-day map that is not empty the chart has a line for each   *)
(* of the 30 calendar days ending today, oldest first, and the bar of a    *)
(* day has floor(count / max * 20) fill units, max being the greatest      *)
(* count among those 30 days (no fill at all when that is 0); so a charted *)
(* day with the greatest count has a bar of exactly 20 units.              *)
C7_BarsScaledToCharted ==
    (pc = "update" /\ DOMAIN stats.events_by_day # {}) =>
        LET today == DayOf(clock)
            day(i) == today - 30 + i
            count(d) == Get(stats.events_by_day, d, 0)
            max == MaxOf({count(day(i)) : i \in 1..30})
            bar(d) == IF max = 0 THEN 0 ELSE (count(d) * 20) \div max
        IN  chart = Join(<<"~~~", "Activity over the last 30 days:", "">>
                         \o [i \in 1..30 |-> ChartLine(day(i), bar(day(i)), count(day(i)))]
                         \o <<"~~~">>, "\n")

---------------------------------------------------------------------------
(* The regions of a document, as the claims have them. *)

Pairs == {"activity", "stats", "date"}

StartOf(pair) ==
    CASE pair = "activity" -> activity_start
      [] pair = "stats" -> stats_start
      [] pair = "date" -> date_start

EndOf(pair) ==
    CASE pair = "activity" -> activity_end
      [] pair = "stats" -> stats_end
      [] pair = "date" -> date_end

\* the pair stands in the text: its start marker, and later its end marker
Present(text, pair) ==
    \E i, j \in 1..Len(text) : i < j /\ text[i] = StartOf(pair) /\ text[j] = EndOf(pair)

\* the regions of a pair in a text, left to right: from a start marker to
\* the nearest end marker after it
RECURSIVE RegionsFrom(_, _, _)
RegionsFrom(text, pair, from) ==
    LET starts == {i \in from..Len(text) : text[i] = StartOf(pair)}
        i == CHOOSE x \in starts : \A y \in starts : x <= y
        ends == {k \in (i + 1)..Len(text) : text[k] = EndOf(pair)}
        j == CHOOSE x \in ends : \A y \in ends : x <= y
    IN  IF starts = {} THEN {}
        ELSE IF ends = {} THEN {}
        ELSE {<<i, j>>} \cup RegionsFrom(text, pair, j + 1)

Regions(text, pair) == RegionsFrom(text, pair, 1)

\* the positions of a text inside a region of one of the three pairs
InRegions(text) ==
    {p \in 1..Len(text) :
        \E pair \in Pairs : \E r \in Regions(text, pair) : r[1] <= p /\ p <= r[2]}

\* no marker stands twice in the text
EachMarkerOnce(text) ==
    \A m \in Markers : Cardinality({k \in 1..Len(text) : text[k] = m}) <= 1

\* no two regions of different pairs share a position
RegionsApart(text) ==
    \A a, b \in Pairs : a # b =>
        \A r \in Regions(text, a) : \A q \in Regions(text, b) : r[2] < q[1] \/ q[2] < r[1]

\* result is text with nothing changed but inside the positions of `inside`:
\* the pieces outside them stand in result, in order, the first ones at its
\* start unless text starts inside, the last ones at its end unless text
\* ends inside, and between two pieces next to each other nothing is added
RECURSIVE Kept(_, _, _, _, _, _)
Kept(text, result, inside, p, q, open) ==
    IF p > Len(text) THEN open \/ q > Len(result)
    ELSE IF p \in inside THEN Kept(text, result, inside, p + 1, q, TRUE)
    ELSE IF open
        THEN \E k \in q..Len(result) :
                 result[k] = text[p] /\ Kept(text, result, inside, p + 1, k + 1, FALSE)
    ELSE /\ q <= Len(result)
         /\ result[q] = text[p]
         /\ Kept(text, result, inside, p + 1, q + 1, FALSE)

OutsideKept(text, result) == Kept(text, result, InRegions(text), 1, 1, FALSE)

RECURSIVE Flat(_, _)
Flat(parts, n) == IF n = 0 THEN <<>> ELSE Flat(parts, n - 1) \o parts[n]

\* text with each region of the given pairs replaced by the pair's section
Replaced(text, pairs, Section(_)) ==
    LET part(p) ==
            IF \E pair \in pairs : \E r \in Regions(text, pair) : r[1] = p
                THEN Section(CHOOSE pair \in pairs : \E r \in Regions(text, pair) : r[1] = p)
            ELSE IF \E pair \in pairs : \E r \in Regions(text, pair) : r[1] < p /\ p <= r[2]
                THEN <<>>
            ELSE <<text[p]>>
    IN  Flat([p \in 1..Len(text) |-> part(p)], Len(text))

\* update_readme has returned: the document it read, and the clock it read
Patched == pc = "done"
Before == Ops("read")[Len(Ops("read"))].arg.text
\* and the file it found
OnDisk == Ops("read")[Len(Ops("read"))].arg.file

ContentOf(pair) ==
    CASE pair = "activity" -> activity_content
      [] pair = "stats" -> stats_content
      [] pair = "date" -> Timestamp(clock)

\* the substitution update_readme makes for a pair
Sub(pair, text) ==
    re_sub(StartOf(pair), EndOf(pair),
           CASE pair = "activity" -> activity_section(activity_content)
             [] pair = "stats" -> stats_section(stats_content)
             [] pair = "date" -> date_section(clock),
           text)

---------------------------------------------------------------------------
(* C3: whatever the document, update_readme changes nothing, byte for     *)
(* byte, outside the regions of the three marker pairs of the file it read *)
(* (a region being what the pattern of its pair matches there: from a      *)
(* start marker through the nearest end marker after it), the three        *)
(* substitutions having been applied one after the other.                  *)
C3_OutsideKept == Patched => OutsideKept(OnDisk, readme)

\* what the substitutions do keep: the text, as it was read, outside the
\* regions of a document in which no marker stands twice
OutsideKeptOfMarkedOnce == (Patched /\ EachMarkerOnce(Before)) => OutsideKept(Before, readme)

---------------------------------------------------------------------------
(* C4: patching is idempotent: a substitution applied to the document it   *)
(* has produced, with the same content, leaves it as it is, for each of    *)
(* the three pairs and for the three of them applied by update_readme.     *)
C4_Idempotent ==
    /\ \A pair \in Pairs : Sub(pair, Sub(pair, readme)) = Sub(pair, readme)
    /\ (Patched /\ runs >= 2) => (readme = OnDisk /\ readme = Before)

\* update_readme has been applied a second time, to a document its first
\* application had changed
C4_Witness ==
    /\ Patched
    /\ runs = 2
    /\ Ops("read")[1].arg.text # Ops("write")[1].arg
    /\ Present(Ops("read")[1].arg.text, "activity")

---------------------------------------------------------------------------
(* C5, as claimed: each of the three pairs that stands in the document has *)
(* its region, markers included, replaced by start marker, newline,        *)
(* content, newline, end marker (the document holding no marker twice and  *)
(* its regions standing apart).                                            *)
ClaimedSection(pair) == <<StartOf(pair), "\n", ContentOf(pair), "\n", EndOf(pair)>>

C5_NewlinesAround ==
    (Patched /\ EachMarkerOnce(Before) /\ RegionsApart(Before))
        => readme = Replaced(Before, Pairs, ClaimedSection)

(* C5, amended: update_readme applies the substitutions of the activity,  *)
(* the stats and the date pair in this order, the first to the text as it  *)
(* was read and each other to the text the one before it has left, and     *)
(* each replaces every region of its pair in that  *)
(* text, markers included and across line boundaries: an activity or a     *)
(* stats region by start marker, newline, content, newline, end marker, a  *)
(* date region by start marker, timestamp, end marker, with no newline.    *)
(* So in a document that holds no marker twice and whose regions stand     *)
(* apart, each pair that stands in the document has its region replaced.   *)
AmendedSection(pair) ==
    IF pair = "date" THEN <<date_start, Timestamp(clock), date_end>>
    ELSE <<StartOf(pair), "\n", ContentOf(pair), "\n", EndOf(pair)>>

C5_RegionsReplaced ==
    Patched =>
        LET first == Replaced(Before, {"activity"}, AmendedSection)
            second == Replaced(first, {"stats"}, AmendedSection)
            third == Replaced(second, {"date"}, AmendedSection)
        IN  /\ readme = third
            /\ (EachMarkerOnce(Before) /\ RegionsApart(Before))
                   => readme = Replaced(Before, Pairs, AmendedSection)

\* a document with its three regions, one of them over two lines, has been patched
C5_Witness ==
    /\ Patched
    /\ runs = 1
    /\ Before = TemplateDoc
    /\ \A pair \in Pairs : Present(Before, pair)

---------------------------------------------------------------------------
(* C6: a pair that does not stand in the document (no start marker with    *)
(* its end marker after it) makes its substitution match nothing: nothing  *)
(* is raised, that substitution leaves the text as it is, the written      *)
(* document is the one the substitutions of the other pairs make, and it   *)
(* is written.                                                             *)
RECURSIVE SubAll(_, _)
SubAll(order, text) ==
    IF order = <<>> THEN text ELSE SubAll(Tail(order), Sub(Head(order), text))

C6_AbsentPair ==
    /\ pc \in {"update", "done"}
    /\ Patched =>
           /\ exit_code = 0
           /\ Ops("write")[Len(Ops("write"))].arg = readme
           /\ \A pair \in Pairs : ~Present(Before, pair) =>
                  /\ Sub(pair, Before) = Before
                  /\ readme = SubAll(SelectSeq(<<"activity", "stats", "date">>,
                                               LAMBDA other : other # pair), Before)

\* a document without the stats pair has been patched: its other regions
\* have been replaced
C6_Witness ==
    /\ Patched
    /\ OnDisk = TemplateNoStats
    /\ ~Present(Before, "stats")
    /\ readme = Replaced(Before, {"activity", "date"}, AmendedSection)
    /\ readme # Before

====
